---- MODULE Spec2Model ----
(***************************************************************************)
(* A model of the rsm state-machine engine (src/rsm.go, lines 1-209: the   *)
(* variant with a list of handlers per key and global before/after hooks). *)
(*                                                                         *)
(* One caller thread registers handlers and calls Transit and              *)
(* TransitWithRetries; Transit is modelled step by step, one action per    *)
(* handler invocation, as a stack of call frames.  Stop is called from     *)
(* other goroutines and meets the retry loop on the unbuffered channel     *)
(* r.quit.  Handlers are caller-supplied functions: each invocation        *)
(* nondeterministically returns nil or a failure (NilHandler returns nil). *)
(***************************************************************************)
EXTENDS Integers, Sequences, FiniteSets, TLC

\* ------------------------------------------------------------------ bounds
\* Number of AddHandler/AddTransition calls the caller makes.
MaxRegs == 3
\* The largest maxRetries argument given to NewRSM.
MaxBudget == 3

\* The deepest nesting of Transit calls: a handler of one Transit calling
\* Transit through the event's engine reference.
MaxDepth == 2

\* --------------------------------------------------------------- constants
StageBefore == 0
StageInProgress == 1
StageAfter == 2

Stages == {StageBefore, StageInProgress, StageAfter}

\* The state given to NewRSM, and the states the caller names.
InitialState == "start"
States == {"start", "end"}
\* The (startState, endState) pairs the caller registers handlers for.
RegPairs == {<<"start", "end">>, <<"end", "start">>}
\* The caller's handler functions; Nil is Go's nil handler value.
Handlers == {"h1", "h2"}
Nil == "nil"
NilHandler == "NilHandler"
\* The goroutines that call Stop.
StopProcs == {"s1", "s2"}

VARIABLES
    CurrentState,        \* r.CurrentState
    MaxRetries,          \* r.MaxRetries
    transitions,         \* r.transitions: key -> list of handlers
    beforeTransition,    \* r.beforeTransition, Nil when not set
    afterTransition,     \* r.afterTransition, Nil when not set
    finalizeTransition,  \* the finalize hook, Nil when not set
    stopPc,              \* each Stop caller: "idle", "send" (at r.quit <- true), "done"
    mpc,                 \* the caller thread: "idle", "transit", "select", "attempt"
    stack,               \* the frames of the Transit calls in progress
    twr,                 \* the locals of TransitWithRetries: nextState, i, err
    ret,                 \* what the last Transit/TransitWithRetries call returned
    nregs,               \* the number of registration calls made
    log,                 \* history: the events of the current Transit call
    registered,          \* history: key -> handlers in the order they were registered
    lastSuccess,         \* history: destination of the last Transit that returned nil
    hist                 \* history of the current TransitWithRetries call: its
                         \* Transit calls, its RetryWaitTime(i) calls (waits), the
                         \* Stop callers blocked when it began (early) and those
                         \* that called Stop while it waited (during) or
                         \* while it was inside a Transit attempt (busy)

vars == <<CurrentState, MaxRetries, transitions, beforeTransition, afterTransition,
          finalizeTransition, stopPc, mpc, stack, twr, ret, nregs, log,
          registered, lastSuccess, hist>>

hooks == <<beforeTransition, afterTransition, finalizeTransition>>
registry == <<transitions, registered, nregs>>

\* ------------------------------------------------------------------ errors
NilErr == [kind |-> "nil"]

\* errors.New("Cannot transition from %s to %s")
IllegalErr(src, dst) == [kind |-> "illegal", src |-> src, dst |-> dst]

\* The failure a handler invocation returns: the handler's own error value.
HandlerErr(h, stage, idx) == [kind |-> "handler", h |-> h, stage |-> stage, idx |-> idx]

\* The failure a global hook returns.
HookErr(hook, h) == [kind |-> "hook", hook |-> hook, h |-> h]

\* The max-retries failure without the failure it wraps.
maxRetriesReached_DropsCause(nextState, err) ==
    [kind |-> "maxRetries", src |-> CurrentState, dst |-> nextState, wrapped |-> NilErr]

\* errors.New("Error transitioning from %s to %s with error: %v")
maxRetriesReached(nextState, err) ==
    [kind |-> "maxRetries", src |-> CurrentState, dst |-> nextState, wrapped |-> err]

\* ---------------------------------------------------------------- registry
transitionKey(startState, endState, stage) == <<startState, endState, stage>>

\* The handlers stored under a key, and whether the key is in the map.
Lookup(tr, key) == IF key \in DOMAIN tr THEN tr[key] ELSE <<>>

\* AddHandler as in the single-handler variant: the key's handler is replaced.
AddHandlerTo_Overwrite(tr, startState, endState, stage, handler) ==
    LET key == <<startState, endState, stage>>
    IN [k \in (DOMAIN tr) \cup {key} |-> IF k = key THEN <<handler>> ELSE tr[k]]

\* AddHandler's effect on a registry map.
AddHandlerTo(tr, startState, endState, stage, handler) ==
    LET key == transitionKey(startState, endState, stage)
        handlers == IF key \in DOMAIN tr
                    THEN Append(tr[key], handler)
                    ELSE <<handler>>
    IN [k \in (DOMAIN tr) \cup {key} |-> IF k = key THEN handlers ELSE tr[k]]

\* CanTransitionTo looking for a handler of any stage.
CanTransitionTo_AnyStage(state) ==
    \E stage \in Stages : <<CurrentState, state, stage>> \in DOMAIN transitions

CanTransitionTo(state) ==
    transitionKey(CurrentState, state, StageInProgress) \in DOMAIN transitions

\* What a handler invocation can return: TRUE for nil, FALSE for a failure.
Outcomes(h) == IF h = NilHandler THEN {TRUE} ELSE BOOLEAN

NoRet == [op |-> "none"]
NoTwr == [nextState |-> Nil, i |-> 0, err |-> NilErr]
NoHist == [attempts |-> 0, fails |-> 0, lastFail |-> NilErr, start |-> Nil,
           waits |-> <<>>, early |-> {}, during |-> {}, busy |-> {}]

\* NewRSM(InitialState, retryWaitTime, maxRetries), maxRetries one of budgets.
Construct(budgets) ==
    /\ CurrentState = InitialState
    /\ MaxRetries \in budgets
    /\ transitions = <<>>
    /\ beforeTransition = Nil
    /\ afterTransition = Nil
    /\ finalizeTransition = Nil
    /\ stopPc = [s \in StopProcs |-> "idle"]
    /\ mpc = "idle"
    /\ stack = <<>>
    /\ twr = NoTwr
    /\ ret = NoRet
    /\ nregs = 0
    /\ log = <<>>
    /\ registered = <<>>
    /\ lastSuccess = InitialState
    /\ hist = NoHist

Init == Construct({MaxBudget})

\* ------------------------------------------------------ registration calls
\* A call of the caller thread ends what it observed of the previous call.
Forget == ret' = NoRet /\ log' = <<>> /\ hist' = NoHist

AddHandler(startState, endState, stage, handler) ==
    /\ mpc = "idle"
    /\ nregs < MaxRegs
    /\ transitions' = AddHandlerTo(transitions, startState, endState, stage, handler)
    /\ registered' =
         LET key == <<startState, endState, stage>>
         IN [k \in (DOMAIN registered) \cup {key} |->
               IF k = key THEN Append(Lookup(registered, key), handler)
               ELSE registered[k]]
    /\ nregs' = nregs + 1
    /\ Forget
    /\ UNCHANGED <<CurrentState, MaxRetries, hooks, stopPc, mpc, stack, twr, lastSuccess>>

AddTransition(startState, endState, handler) ==
    AddHandler(startState, endState, StageInProgress,
               IF handler = Nil THEN NilHandler ELSE handler)

BeforeTransitionHandler(handler) ==
    /\ mpc = "idle"
    /\ beforeTransition' = handler
    /\ Forget
    /\ UNCHANGED <<CurrentState, MaxRetries, afterTransition, finalizeTransition, registry,
                   stopPc, mpc, stack, twr, lastSuccess>>

AfterTransitionHandler(handler) ==
    /\ mpc = "idle"
    /\ afterTransition' = handler
    /\ Forget
    /\ UNCHANGED <<CurrentState, MaxRetries, beforeTransition, finalizeTransition, registry,
                   stopPc, mpc, stack, twr, lastSuccess>>

FinalizeTransitionHandler(handler) ==
    /\ mpc = "idle"
    /\ finalizeTransition' = handler
    /\ Forget
    /\ UNCHANGED <<CurrentState, MaxRetries, beforeTransition, afterTransition, registry,
                   stopPc, mpc, stack, twr, lastSuccess>>

\* ----------------------------------------------------------------- Transit
\* A frame of a Transit call: its argument, its position in the code, the
\* handlers and the event of the stage it is in, and its locals.
Frame(nextState) ==
    [nextState |-> nextState, pc |-> "gate", handlers |-> <<>>, idx |-> 0,
     event |-> [Stage |-> StageBefore, Src |-> Nil, Dest |-> Nil],
     beforeState |-> Nil, err |-> NilErr, entry |-> CurrentState]

Top == stack[Len(stack)]

Goto(f) == stack' = [stack EXCEPT ![Len(stack)] = f]

\* &Event{RSM: r, Stage: stage, Src: src, Dest: dest, Args: args}
Event(stage, src, dest) == [Stage |-> stage, Src |-> src, Dest |-> dest]

\* One observed invocation: the event the handler got, the engine state it
\* saw through e.RSM, and what it returned.
Observed(ev, event, idx, h, ok, err) ==
    [ev |-> ev, Stage |-> event.Stage, Src |-> event.Src, Dest |-> event.Dest,
     cur |-> CurrentState, idx |-> idx, h |-> h, ok |-> ok, err |-> err]

\* Transit(nextState) is called directly by the caller thread.
CallTransit(nextState) ==
    /\ mpc = "idle"
    /\ mpc' = "transit"
    /\ stack' = Append(stack, Frame(nextState))
    /\ Forget
    /\ UNCHANGED <<CurrentState, MaxRetries, hooks, registry, stopPc, twr, lastSuccess>>

\* The legality gate without its return.
TransitGate_NoReturn ==
    /\ stack # <<>>
    /\ stack[Len(stack)].pc = "gate"
    /\ stack' = [stack EXCEPT ![Len(stack)].pc = "beforeAll"]
    /\ UNCHANGED <<CurrentState, MaxRetries, hooks, registry, stopPc, mpc, twr, ret, log,
                   lastSuccess, hist>>

\* if !r.CanTransitionTo(nextState) { return errors.New(...) }
TransitGate ==
    /\ stack # <<>>
    /\ Top.pc = "gate"
    /\ IF ~CanTransitionTo(Top.nextState)
       THEN Goto([Top EXCEPT !.pc = "ret",
                             !.err = IllegalErr(CurrentState, Top.nextState)])
       ELSE Goto([Top EXCEPT !.pc = "beforeAll"])
    /\ UNCHANGED <<CurrentState, MaxRetries, hooks, registry, stopPc, mpc, twr, ret, log,
                   lastSuccess, hist>>

\* A global hook that can abort the transition: invoked if set; its failure
\* is returned.
AbortingHook(pc, hookName, handler, stage, nextPc) ==
    /\ stack # <<>>
    /\ Top.pc = pc
    /\ IF handler = Nil
       THEN /\ Goto([Top EXCEPT !.pc = nextPc])
            /\ log' = log
       ELSE \E ok \in Outcomes(handler) :
              LET event == Event(stage, CurrentState, Top.nextState)
                  err == IF ok THEN NilErr ELSE HookErr(hookName, handler)
              IN /\ log' = Append(log, Observed(hookName, event, 0, handler, ok, err))
                 /\ IF ok
                    THEN Goto([Top EXCEPT !.pc = nextPc, !.event = event])
                    ELSE Goto([Top EXCEPT !.pc = "ret", !.event = event, !.err = err])
    /\ UNCHANGED <<CurrentState, MaxRetries, hooks, registry, stopPc, mpc, twr, ret,
                   lastSuccess, hist>>

\* The before-all hook's failure dropped.
BeforeAllHook_IgnoresFailure ==
    /\ stack # <<>>
    /\ stack[Len(stack)].pc = "beforeAll"
    /\ IF beforeTransition = Nil
       THEN log' = log
       ELSE \E ok \in Outcomes(beforeTransition) :
              log' = Append(log, Observed("beforeAll",
                                          Event(StageBefore, CurrentState,
                                                stack[Len(stack)].nextState),
                                          0, beforeTransition, ok,
                                          IF ok THEN NilErr
                                          ELSE HookErr("beforeAll", beforeTransition)))
    /\ stack' = [stack EXCEPT ![Len(stack)].pc = "before"]
    /\ UNCHANGED <<CurrentState, MaxRetries, hooks, registry, stopPc, mpc, twr, ret,
                   lastSuccess, hist>>

\* if r.beforeTransition != nil { ... err = r.beforeTransition(event) ... }
BeforeAllHook ==
    AbortingHook("beforeAll", "beforeAll", beforeTransition, StageBefore, "before")

\* handlers, ok = r.transitions[transitionKey{src, dest, stage}] and the
\* stage's event.
StageLookup(pc, stage, src, dest, nextPc) ==
    /\ stack # <<>>
    /\ Top.pc = pc
    /\ Goto([Top EXCEPT !.pc = nextPc,
                        !.handlers = Lookup(transitions, transitionKey(src, dest, stage)),
                        !.idx = 1,
                        !.event = Event(stage, src, dest)])
    /\ UNCHANGED <<CurrentState, MaxRetries, hooks, registry, stopPc, mpc, twr, ret, log,
                   lastSuccess, hist>>

\* for _, handler := range handlers { err = handler(event); if err != nil
\* { return err } } -- with propagate FALSE the result is dropped.
HandlerLoop(pc, ev, propagate, nextPc) ==
    /\ stack # <<>>
    /\ Top.pc = pc
    /\ IF Top.idx > Len(Top.handlers)
       THEN /\ Goto([Top EXCEPT !.pc = nextPc])
            /\ log' = log
       ELSE \E ok \in Outcomes(Top.handlers[Top.idx]) :
              LET h == Top.handlers[Top.idx]
                  err == IF ok THEN NilErr ELSE HandlerErr(h, Top.event.Stage, Top.idx)
              IN /\ log' = Append(log, Observed(ev, Top.event, Top.idx, h, ok, err))
                 /\ IF propagate /\ ~ok
                    THEN Goto([Top EXCEPT !.pc = "ret", !.err = err])
                    ELSE Goto([Top EXCEPT !.idx = Top.idx + 1])
    /\ UNCHANGED <<CurrentState, MaxRetries, hooks, registry, stopPc, mpc, twr, ret,
                   lastSuccess, hist>>

\* The Before stage reading the After-stage key.
BeforeLookup_WrongStage ==
    StageLookup("before", StageAfter, CurrentState, Top.nextState, "beforeLoop")

BeforeLookup ==
    StageLookup("before", StageBefore, CurrentState, Top.nextState, "beforeLoop")

\* The Before loop dropping the handlers' results.
BeforeLoop_IgnoresFailure == HandlerLoop("beforeLoop", "before", FALSE, "inProgress")

BeforeLoop == HandlerLoop("beforeLoop", "before", TRUE, "inProgress")

InProgressLookup ==
    StageLookup("inProgress", StageInProgress, CurrentState, Top.nextState,
                "inProgressLoop")

InProgressLoop == HandlerLoop("inProgressLoop", "inProgress", TRUE, "finalize")

\* The finalize hook handed a Before-stage event.
FinalizeHook_BeforeStageEvent ==
    AbortingHook("finalize", "finalize", finalizeTransition, StageBefore, "commit")

\* The global finalize hook: after the InProgress handlers, before the commit.
FinalizeHook ==
    AbortingHook("finalize", "finalize", finalizeTransition, StageInProgress, "commit")

\* The commit reading beforeState after the assignment of the new state.
Commit_SourceReadLate ==
    /\ stack # <<>>
    /\ stack[Len(stack)].pc = "commit"
    /\ CurrentState' = stack[Len(stack)].nextState
    /\ stack' = [stack EXCEPT ![Len(stack)].pc = "after",
                              ![Len(stack)].beforeState = stack[Len(stack)].nextState]
    /\ log' = Append(log, [ev |-> "commit", Stage |-> StageAfter, Src |-> CurrentState,
                           Dest |-> stack[Len(stack)].nextState,
                           cur |-> stack[Len(stack)].nextState, idx |-> 0, h |-> Nil,
                           ok |-> TRUE, err |-> NilErr])
    /\ UNCHANGED <<MaxRetries, hooks, registry, stopPc, mpc, twr, ret, lastSuccess,
                   hist>>

\* beforeState := r.CurrentState; r.CurrentState = nextState
Commit ==
    /\ stack # <<>>
    /\ Top.pc = "commit"
    /\ CurrentState' = Top.nextState
    /\ Goto([Top EXCEPT !.pc = "after", !.beforeState = CurrentState])
    /\ log' = Append(log, [Observed("commit", Event(StageAfter, CurrentState, Top.nextState),
                                    0, Nil, TRUE, NilErr)
                           EXCEPT !.cur = Top.nextState])
    /\ UNCHANGED <<MaxRetries, hooks, registry, stopPc, mpc, twr, ret, lastSuccess,
                   hist>>

AfterLookup ==
    StageLookup("after", StageAfter, Top.beforeState, CurrentState, "afterLoop")

\* The After loop returning a handler's failure.
AfterLoop_ReturnsFailure == HandlerLoop("afterLoop", "after", TRUE, "afterAll")

\* for _, handler := range handlers { handler(event) }
AfterLoop == HandlerLoop("afterLoop", "after", FALSE, "afterAll")

\* The after-all hook's failure returned from Transit.
AfterAllHook_ReturnsFailure ==
    /\ stack # <<>>
    /\ Top.pc = "afterAll"
    /\ IF afterTransition = Nil
       THEN log' = log /\ Goto([Top EXCEPT !.pc = "ret", !.err = NilErr])
       ELSE \E ok \in Outcomes(afterTransition) :
              LET err == IF ok THEN NilErr ELSE HookErr("afterAll", afterTransition)
              IN /\ log' = Append(log, Observed("afterAll",
                                    Event(StageAfter, Top.beforeState, CurrentState),
                                    0, afterTransition, ok, err))
                 /\ Goto([Top EXCEPT !.pc = "ret", !.err = err])
    /\ UNCHANGED <<CurrentState, MaxRetries, hooks, registry, stopPc, mpc, twr, ret,
                   lastSuccess, hist>>

\* if r.afterTransition != nil { ... r.afterTransition(event) }; return nil
AfterAllHook ==
    /\ stack # <<>>
    /\ Top.pc = "afterAll"
    /\ IF afterTransition = Nil
       THEN log' = log
       ELSE \E ok \in Outcomes(afterTransition) :
              log' = Append(log, Observed("afterAll",
                                          Event(StageAfter, Top.beforeState, CurrentState),
                                          0, afterTransition, ok,
                                          IF ok THEN NilErr
                                          ELSE HookErr("afterAll", afterTransition)))
    /\ Goto([Top EXCEPT !.pc = "ret", !.err = NilErr])
    /\ UNCHANGED <<CurrentState, MaxRetries, hooks, registry, stopPc, mpc, twr, ret,
                   lastSuccess, hist>>

\* The destination of the last Transit that returned nil.
Succeeded(f) == IF f.err = NilErr THEN f.nextState ELSE lastSuccess

\* Transit returns to the caller thread.
TransitReturn ==
    /\ mpc = "transit"
    /\ Len(stack) = 1
    /\ Top.pc = "ret"
    /\ stack' = SubSeq(stack, 1, Len(stack) - 1)
    /\ mpc' = "idle"
    /\ ret' = [op |-> "Transit", nextState |-> Top.nextState, err |-> Top.err,
               entry |-> Top.entry]
    /\ lastSuccess' = Succeeded(Top)
    /\ UNCHANGED <<CurrentState, MaxRetries, hooks, registry, stopPc, twr, log, hist>>

\* --------------------------------------------------- re-entrant Transit
\* The loops of Transit that invoke the handlers of a key.
LoopEvent(pc) ==
    CASE pc = "beforeLoop" -> "before"
      [] pc = "inProgressLoop" -> "inProgress"
      [] pc = "afterLoop" -> "after"

\* handler(event) calls event.RSM.Transit(nextState): the handler about to run
\* in the topmost Transit enters a nested Transit on the same goroutine.
HandlerTransits(nextState) ==
    /\ stack # <<>>
    /\ Len(stack) < MaxDepth
    /\ Top.pc \in {"beforeLoop", "inProgressLoop", "afterLoop"}
    /\ Top.idx <= Len(Top.handlers)
    /\ Top.handlers[Top.idx] # NilHandler
    /\ stack' = Append(stack, Frame(nextState))
    /\ UNCHANGED <<CurrentState, MaxRetries, hooks, registry, stopPc, mpc, twr, ret, log,
                   lastSuccess, hist>>

\* The nested Transit returns into the handler, which returns nil or a
\* failure to the loop of the Transit that invoked it.
HandlerResumes ==
    /\ Len(stack) >= 2
    /\ Top.pc = "ret"
    /\ LET outer == stack[Len(stack) - 1]
           h == outer.handlers[outer.idx]
       IN \E ok \in Outcomes(h) :
            LET err == IF ok THEN NilErr ELSE HandlerErr(h, outer.event.Stage, outer.idx)
            IN /\ log' = Append(log, Observed(LoopEvent(outer.pc), outer.event,
                                              outer.idx, h, ok, err))
               /\ stack' = Append(SubSeq(stack, 1, Len(stack) - 2),
                                  IF outer.pc # "afterLoop" /\ ~ok
                                  THEN [outer EXCEPT !.pc = "ret", !.err = err]
                                  ELSE [outer EXCEPT !.idx = outer.idx + 1])
    /\ lastSuccess' = Succeeded(Top)
    /\ UNCHANGED <<CurrentState, MaxRetries, hooks, registry, stopPc, mpc, twr, ret, hist>>

\* ------------------------------------------------------ TransitWithRetries
\* The attempt counter starting at 0.
CallTransitWithRetries_FromZero(nextState) ==
    /\ mpc = "idle"
    /\ mpc' = "select"
    /\ twr' = [nextState |-> nextState, i |-> 0, err |-> NilErr]
    /\ hist' = [NoHist EXCEPT !.start = CurrentState, !.waits = <<twr'.i>>,
                              !.early = {s \in StopProcs : stopPc[s] = "send"}]
    /\ ret' = NoRet
    /\ log' = <<>>
    /\ UNCHANGED <<CurrentState, MaxRetries, hooks, registry, stopPc, stack, lastSuccess>>

\* var err error; i := 1; for { select { ...
CallTransitWithRetries(nextState) ==
    /\ mpc = "idle"
    /\ mpc' = "select"
    /\ twr' = [nextState |-> nextState, i |-> 1, err |-> NilErr]
    /\ hist' = [NoHist EXCEPT !.start = CurrentState, !.waits = <<twr'.i>>,
                              !.early = {s \in StopProcs : stopPc[s] = "send"}]
    /\ ret' = NoRet
    /\ log' = <<>>
    /\ UNCHANGED <<CurrentState, MaxRetries, hooks, registry, stopPc, stack, lastSuccess>>

\* What TransitWithRetries hands back to the caller thread.
Returned(err, how) ==
    [op |-> "TransitWithRetries", nextState |-> twr.nextState, err |-> err,
     entry |-> hist.start, i |-> twr.i, how |-> how]

\* The budget test counting one retry less.
BudgetSpent_OffByOne(i) == i >= MaxRetries

\* if i > r.MaxRetries
BudgetSpent(i) == i > MaxRetries

\* case <-time.After(r.RetryWaitTime(i)): the wait is over; either the
\* budget is spent, or Transit is called.
TimerElapsed ==
    /\ mpc = "select"
    /\ IF BudgetSpent(twr.i)
       THEN /\ mpc' = "idle"
            /\ ret' = Returned(maxRetriesReached(twr.nextState, twr.err), "exhausted")
            /\ twr' = NoTwr
            /\ UNCHANGED <<stack, hist, log>>
       ELSE /\ mpc' = "attempt"
            /\ stack' = Append(stack, Frame(twr.nextState))
            /\ hist' = [hist EXCEPT !.attempts = hist.attempts + 1]
            /\ log' = <<>>
            /\ UNCHANGED <<twr, ret>>
    /\ UNCHANGED <<CurrentState, MaxRetries, hooks, registry, stopPc, lastSuccess>>

\* The loop without its i++.
AttemptReturn_NoIncrement ==
    /\ mpc = "attempt"
    /\ Len(stack) = 1
    /\ Top.pc = "ret"
    /\ stack' = SubSeq(stack, 1, Len(stack) - 1)
    /\ lastSuccess' = Succeeded(Top)
    /\ IF Top.err = NilErr
       THEN /\ mpc' = "idle"
            /\ ret' = Returned(NilErr, "success")
            /\ twr' = NoTwr
            /\ hist' = hist
       ELSE /\ mpc' = "select"
            /\ twr' = [twr EXCEPT !.err = Top.err]
            /\ hist' = [hist EXCEPT !.fails = hist.fails + 1, !.lastFail = Top.err,
                                    !.waits = Append(hist.waits, twr'.i)]
            /\ ret' = ret
    /\ UNCHANGED <<CurrentState, MaxRetries, hooks, registry, stopPc, log>>

\* err = r.Transit(nextState, args...); if err == nil { return nil }; i++
AttemptReturn ==
    /\ mpc = "attempt"
    /\ Len(stack) = 1
    /\ Top.pc = "ret"
    /\ stack' = SubSeq(stack, 1, Len(stack) - 1)
    /\ lastSuccess' = Succeeded(Top)
    /\ IF Top.err = NilErr
       THEN /\ mpc' = "idle"
            /\ ret' = Returned(NilErr, "success")
            /\ twr' = NoTwr
            /\ hist' = hist
       ELSE /\ mpc' = "select"
            /\ twr' = [twr EXCEPT !.err = Top.err, !.i = twr.i + 1]
            /\ hist' = [hist EXCEPT !.fails = hist.fails + 1, !.lastFail = Top.err,
                                    !.waits = Append(hist.waits, twr'.i)]
            /\ ret' = ret
    /\ UNCHANGED <<CurrentState, MaxRetries, hooks, registry, stopPc, log>>

\* The senders blocked on the unbuffered channel r.quit.
quit == {s \in StopProcs : stopPc[s] = "send"}

\* The quit case returning nil instead of err.
QuitReceived_ReturnsNil(s) ==
    /\ mpc = "select"
    /\ s \in quit
    /\ stopPc' = [stopPc EXCEPT ![s] = "done"]
    /\ mpc' = "idle"
    /\ ret' = Returned(NilErr, "cancelled")
    /\ twr' = NoTwr
    /\ UNCHANGED <<CurrentState, MaxRetries, hooks, registry, stack, log, lastSuccess, hist>>

\* case <-r.quit: return err -- the loop receives what Stop caller s sends.
QuitReceived(s) ==
    /\ mpc = "select"
    /\ s \in quit
    /\ stopPc' = [stopPc EXCEPT ![s] = "done"]
    /\ mpc' = "idle"
    /\ ret' = Returned(twr.err, "cancelled")
    /\ twr' = NoTwr
    /\ UNCHANGED <<CurrentState, MaxRetries, hooks, registry, stack, log, lastSuccess, hist>>

\* Stop is called: the goroutine reaches r.quit <- true.
Stop(s) ==
    /\ stopPc[s] = "idle"
    /\ stopPc' = [stopPc EXCEPT ![s] = "send"]
    /\ hist' = CASE mpc = "select" -> [hist EXCEPT !.during = hist.during \cup {s}]
                 [] mpc = "attempt" -> [hist EXCEPT !.busy = hist.busy \cup {s}]
                 [] OTHER -> hist
    /\ UNCHANGED <<CurrentState, MaxRetries, hooks, registry, mpc, stack, twr, ret, log,
                   lastSuccess>>

\* ------------------------------------------------------------ specification
Register ==
    \/ \E p \in RegPairs, stage \in {StageBefore, StageAfter}, h \in Handlers :
         AddHandler(p[1], p[2], stage, h)
    \/ \E p \in RegPairs, h \in Handlers \cup {Nil} :
         AddTransition(p[1], p[2], h)

SetHook ==
    \/ \E h \in Handlers \cup {Nil} : BeforeTransitionHandler(h)
    \/ \E h \in Handlers \cup {Nil} : AfterTransitionHandler(h)
    \/ \E h \in Handlers \cup {Nil} : FinalizeTransitionHandler(h)

TransitStep ==
    \/ TransitGate
    \/ BeforeAllHook
    \/ BeforeLookup
    \/ BeforeLoop
    \/ InProgressLookup
    \/ InProgressLoop
    \/ FinalizeHook
    \/ Commit
    \/ AfterLookup
    \/ AfterLoop
    \/ AfterAllHook

\* The dispatch protocol: registrations, hooks and direct Transit calls.
Next ==
    \/ Register
    \/ SetHook
    \/ \E d \in States : CallTransit(d)
    \/ TransitStep
    \/ TransitReturn

Spec == Init /\ [][Next]_vars

\* The registrations of the retry scenarios: transitions with or without an
\* InProgress handler, and Before and After handlers.
RetryRegister ==
    \/ \E p \in RegPairs, h \in {Nil, "h1"} : AddTransition(p[1], p[2], h)
    \/ \E p \in RegPairs, stage \in {StageBefore, StageAfter} :
         AddHandler(p[1], p[2], stage, "h1")

\* The retry loop and Stop, over Transit.
NextRetry ==
    \/ RetryRegister
    \/ \E d \in States : CallTransit(d)
    \/ TransitStep
    \/ TransitReturn
    \/ \E d \in States : CallTransitWithRetries(d)
    \/ TimerElapsed
    \/ AttemptReturn
    \/ \E s \in StopProcs : QuitReceived(s)
    \/ \E s \in StopProcs : Stop(s)

\* The engines of the retry scenarios: every budget from none to MaxBudget.
InitRetry == Construct(0..MaxBudget)

SpecRetry == InitRetry /\ [][NextRetry]_vars

\* The steps of the goroutine inside TransitWithRetries: the backoff timer
\* fires, a handler or hook returns, Transit returns to the loop.
LoopStep == TimerElapsed \/ TransitStep \/ AttemptReturn

\* The retry loop on its own: one transition, with or without a handler that
\* can fail, calls of TransitWithRetries to a legal or an illegal destination,
\* and Stop callers.
NextLoop ==
    \/ \E h \in {Nil, "h1"} : AddTransition("start", "end", h)
    \/ \E d \in States : CallTransitWithRetries(d)
    \/ TransitStep
    \/ TimerElapsed
    \/ AttemptReturn
    \/ \E s \in StopProcs : QuitReceived(s)
    \/ \E s \in StopProcs : Stop(s)

\* Waits and handlers terminate: the loop's goroutine keeps taking its steps.
SpecLoop == InitRetry /\ [][NextLoop]_vars /\ WF_vars(LoopStep)

\* The states of the re-entrant scenarios: a second destination of "start".
ChainStates == {"mid", "end"}

\* Their registrations: the transitions start -> mid and start -> end, with or
\* without an InProgress handler, and Before and After handlers.
ChainRegister ==
    \/ \E d \in ChainStates, h \in {Nil, "h1"} : AddTransition(InitialState, d, h)
    \/ \E d \in ChainStates, stage \in {StageBefore, StageAfter} :
         AddHandler(InitialState, d, stage, "h1")

\* Transit with handlers that call Transit themselves.
NextReentrant ==
    \/ ChainRegister
    \/ \E d \in ChainStates : CallTransit(d)
    \/ TransitStep
    \/ \E d \in ChainStates : HandlerTransits(d)
    \/ HandlerResumes
    \/ TransitReturn

SpecReentrant == Init /\ [][NextReentrant]_vars

\* ------------------------------------------------------------------ claims
\* What the caller can tell of an observed invocation: which hook or stage,
\* which handler of the key's list.
Seen(e) == <<e.ev, e.idx, e.h>>

SeenLog == [i \in 1..Len(log) |-> Seen(log[i])]

\* The events of one stage, as the log has them.
StageLog(ev) == SelectSeq(log, LAMBDA e : e.ev = ev)

HookPart(ev, handler) == IF handler = Nil THEN <<>> ELSE << <<ev, 0, handler>> >>

\* The handlers registered for a key, in the order of the registration calls.
StagePart(ev, src, dst, stage) ==
    LET hs == Lookup(registered, <<src, dst, stage>>)
    IN [i \in 1..Len(hs) |-> <<ev, i, hs[i]>>]

ExpectedOrder(src, dst) ==
    HookPart("beforeAll", beforeTransition)
    \o StagePart("before", src, dst, StageBefore)
    \o StagePart("inProgress", src, dst, StageInProgress)
    \o HookPart("finalize", finalizeTransition)
    \o << <<"commit", 0, Nil>> >>
    \o StagePart("after", src, dst, StageAfter)
    \o HookPart("afterAll", afterTransition)

TransitReturned == ret.op = "Transit"

NoFailure == \A i \in 1..Len(log) : log[i].ok

\* C1: a legal Transit in which no handler fails runs the before-all hook, the
\* Before handlers, the InProgress handlers, the finalize hook, the commit, the
\* After handlers and the after-all hook in exactly this order, whatever the
\* order of the registrations.
C1_HandlerOrder ==
    (TransitReturned /\ ret.err = NilErr /\ NoFailure)
        => SeenLog = ExpectedOrder(ret.entry, ret.nextState)

C1_Witness ==
    /\ TransitReturned /\ ret.err = NilErr /\ NoFailure
    /\ \A ev \in {"beforeAll", "before", "inProgress", "finalize", "commit",
                  "after", "afterAll"} : StageLog(ev) # <<>>

\* The call the log belongs to: its entry state and the error it ends with.
CallEntry == IF stack # <<>> THEN Top.entry ELSE ret.entry
CallDone == (stack # <<>> /\ Top.pc = "ret") \/ (stack = <<>> /\ TransitReturned)
CallErr == IF stack # <<>> THEN Top.err ELSE ret.err

AbortingFailure(e) == ~e.ok /\ e.ev \in {"before", "inProgress"}

\* C2: when a Before or InProgress handler fails, nothing runs after it, the
\* current state stays the state Transit was entered in, and Transit returns
\* that handler's failure.
C2_FailureAborts ==
    \A i \in 1..Len(log) :
        AbortingFailure(log[i])
            => /\ i = Len(log)
               /\ CurrentState = CallEntry
               /\ CallDone
               /\ CallErr = log[i].err

C2_Witness ==
    /\ TransitReturned
    /\ \E i \in 1..Len(log) : AbortingFailure(log[i]) /\ log[i].idx = 1
    /\ Len(Lookup(registered, <<ret.entry, ret.nextState, StageInProgress>>)) > 1

\* A pair is registered as a transition by AddTransition (an InProgress entry).
Unregistered(src, dst) == Lookup(registered, <<src, dst, StageInProgress>>) = <<>>

\* C3: for an unregistered (source, destination) pair CanTransitionTo is
\* false, and Transit returns the illegal-transition error without invoking a
\* hook or handler and without changing the current state.
C3_IllegalTransition ==
    /\ \A d \in States : Unregistered(CurrentState, d) => ~CanTransitionTo(d)
    /\ (TransitReturned /\ Unregistered(ret.entry, ret.nextState))
         => /\ ret.err = IllegalErr(ret.entry, ret.nextState)
            /\ log = <<>>
            /\ CurrentState = ret.entry

C3_Witness ==
    /\ TransitReturned
    /\ Unregistered(ret.entry, ret.nextState)
    /\ Lookup(registered, <<ret.entry, ret.nextState, StageBefore>>) # <<>>
    /\ beforeTransition # Nil

\* C4: CanTransitionTo(d) is true exactly when an InProgress handler was
\* registered for (current state, d); Before and After registrations do not
\* count.
C4_LegalIffInProgress ==
    \A d \in States :
        CanTransitionTo(d)
            <=> Len(Lookup(registered, <<CurrentState, d, StageInProgress>>)) >= 1

C4_Witness ==
    /\ CurrentState = "end"
    /\ Lookup(registered, <<"end", "start", StageBefore>>) # <<>>
    /\ Lookup(registered, <<"end", "start", StageAfter>>) # <<>>
    /\ ~CanTransitionTo("start")

\* C6 as stated: under any key, Before, InProgress or After, the handlers
\* after a failing one do not run.
C6_Original ==
    \A ev \in {"before", "inProgress", "after"} :
        \A i \in 1..Len(StageLog(ev)) :
            ~StageLog(ev)[i].ok => i = Len(StageLog(ev))

\* The handlers a stage has run are the first ones registered for its key,
\* each once, in registration order.
RunsInOrder(ev, stage) ==
    LET ran == StageLog(ev)
        hs == Lookup(registered, <<CallEntry, ret.nextState, stage>>)
    IN /\ Len(ran) <= Len(hs)
       /\ \A i \in 1..Len(ran) : ran[i].idx = i /\ ran[i].h = hs[i]

RunsAll(ev, stage) ==
    Len(StageLog(ev)) = Len(Lookup(registered, <<CallEntry, ret.nextState, stage>>))

\* C6 (amended): the N handlers of a key are invoked once each, in
\* registration order, all of them if none fails; when handler k of a Before
\* or InProgress key fails, 1..k-1 have run and k+1..N have not; the handlers
\* of an After key all run even when one of them fails.
C6_MultipleHandlers ==
    TransitReturned =>
        /\ RunsInOrder("before", StageBefore)
        /\ RunsInOrder("inProgress", StageInProgress)
        /\ RunsInOrder("after", StageAfter)
        /\ ret.err = NilErr =>
             /\ RunsAll("before", StageBefore)
             /\ RunsAll("inProgress", StageInProgress)
        /\ StageLog("commit") # <<>> => RunsAll("after", StageAfter)
        /\ \A ev \in {"before", "inProgress"} :
             \A i \in 1..Len(StageLog(ev)) :
                 ~StageLog(ev)[i].ok => i = Len(StageLog(ev))

C6_Witness ==
    /\ TransitReturned
    /\ Len(Lookup(registered, <<ret.entry, ret.nextState, StageInProgress>>)) = 3
    /\ Len(StageLog("inProgress")) = 2
    /\ ~StageLog("inProgress")[2].ok

LateFailure(e) == ~e.ok /\ e.ev \in {"after", "afterAll"}

\* C7: a failure of an After handler or of the after-all hook does not
\* surface from Transit and does not revert the commit.
C7_AfterFailureSwallowed ==
    (\E i \in 1..Len(log) : LateFailure(log[i]))
        => /\ CurrentState = (IF stack # <<>> THEN Top.nextState ELSE ret.nextState)
           /\ CallDone => CallErr = NilErr

C7_Witness ==
    /\ TransitReturned
    /\ \E i, j \in 1..Len(log) :
         /\ ~log[i].ok /\ log[i].ev = "after"
         /\ ~log[j].ok /\ log[j].ev = "afterAll"

\* C5: between calls the current state is the destination of the last
\* transition that succeeded, or the initial state if none did, whatever
\* Transit and TransitWithRetries calls were made.
C5_CurrentIsLastSuccess == stack = <<>> => CurrentState = lastSuccess

C5_Witness ==
    /\ mpc = "idle"
    /\ ret.op = "TransitWithRetries"
    /\ ret.how = "exhausted"
    /\ ret.err.wrapped.kind = "handler"
    /\ CurrentState = "end"

RetriesReturned == ret.op = "TransitWithRetries"

NoStop == \A s \in StopProcs : stopPc[s] = "idle"

\* C8 as stated: the budget is spent after MaxRetries + 1 calls of Transit.
C8_Original ==
    (RetriesReturned /\ ret.how = "exhausted" /\ NoStop
       /\ ret.err.wrapped.kind = "handler")
        => hist.attempts = MaxRetries + 1 /\ CurrentState = ret.entry

\* C8 (amended): with every attempt failing and no Stop, TransitWithRetries
\* returns the max-retries failure after exactly MaxRetries calls of Transit
\* (its counter i then being MaxRetries + 1), the current state unchanged.
C8_RetriesExhausted ==
    (RetriesReturned /\ ret.how = "exhausted" /\ NoStop)
        => /\ ret.err.kind = "maxRetries"
           /\ hist.attempts = MaxRetries
           /\ hist.fails = MaxRetries
           /\ ret.i = MaxRetries + 1
           /\ CurrentState = ret.entry

C8_Witness ==
    /\ RetriesReturned /\ ret.how = "exhausted" /\ NoStop
    /\ ret.err.wrapped.kind = "handler"
    /\ hist.attempts = 3

\* C9: when the attempts fail k-1 times and attempt k succeeds, k within the
\* budget, TransitWithRetries returns nil after exactly k calls of Transit,
\* its counter i being k, and the current state is the destination.
C9_SucceedsOnAttemptK ==
    (RetriesReturned /\ ret.how = "success")
        => /\ ret.err = NilErr
           /\ hist.attempts = hist.fails + 1
           /\ ret.i = hist.attempts
           /\ hist.attempts <= MaxRetries
           /\ CurrentState = ret.nextState

C9_Witness ==
    /\ RetriesReturned /\ ret.how = "success"
    /\ hist.fails = 2
    /\ ret.i = 3
    /\ log # <<>> /\ log[1].ev = "before"

\* C10: when the waiting loop receives the stop signal it returns in that
\* step, with no further call of Transit, and returns the failure of the last
\* failed attempt, or nil if none has failed; the signal is received only by
\* a loop that is waiting.
C10_StopCancelsWait ==
    [][\A s \in StopProcs :
         (stopPc[s] = "send" /\ stopPc'[s] = "done")
            => /\ mpc = "select"
               /\ mpc' = "idle"
               /\ stack' = <<>>
               /\ ret'.op = "TransitWithRetries"
               /\ ret'.err = hist.lastFail
               /\ (hist.fails = 0 => ret'.err = NilErr)
               /\ hist' = hist
               /\ CurrentState' = CurrentState]_vars

C10_Witness ==
    /\ RetriesReturned /\ ret.how = "cancelled"
    /\ ret.err.kind = "handler"
    /\ hist.attempts = 1

\* The stages that precede the finalize hook and can abort the transition.
EarlyStages == {"beforeAll", "before", "inProgress"}

\* The positions of the log holding an invocation of the kind ev.
Positions(ev) == {i \in 1..Len(log) : log[i].ev = ev}

\* C11: the finalize hook, when set, is invoked exactly once in every legal
\* Transit whose before-all hook, Before and InProgress handlers all succeed:
\* after the last InProgress handler and before the commit, seeing the source
\* as current state and an InProgress-stage event; when it fails nothing runs
\* after it, Transit returns its failure and the current state is unchanged.
C11_FinalizeHook ==
    /\ \A i \in Positions("finalize") :
         /\ Positions("finalize") = {i}
         /\ log[i].h = finalizeTransition
         /\ log[i].Stage = StageInProgress
         /\ log[i].Src = CallEntry
         /\ log[i].cur = CallEntry
         /\ \A j \in Positions("inProgress") : j < i
         /\ Len(StageLog("inProgress"))
              = Len(Lookup(registered, <<log[i].Src, log[i].Dest, StageInProgress>>))
         /\ \A j \in 1..Len(log) : log[j].ev \in {"commit", "after", "afterAll"} => i < j
         /\ ~log[i].ok => /\ i = Len(log)
                          /\ CallDone
                          /\ CallErr = log[i].err
                          /\ CurrentState = CallEntry
    /\ ( /\ CallDone
         /\ finalizeTransition # Nil
         /\ CallErr.kind # "illegal"
         /\ \A j \in 1..Len(log) : log[j].ev \in EarlyStages => log[j].ok )
        => Positions("finalize") # {}

C11_Witness ==
    /\ TransitReturned
    /\ Len(StageLog("inProgress")) > 1
    /\ \E i \in Positions("finalize") : ~log[i].ok /\ ret.err = log[i].err
    /\ afterTransition # Nil

\* C12: when the before-all hook fails during a legal Transit, it is the only
\* thing invoked: no Before, InProgress or After handler, no finalize hook, no
\* after-all hook and no commit; Transit returns the hook's failure and the
\* current state is the one Transit was entered in.
C12_BeforeHookAborts ==
    \A i \in Positions("beforeAll") :
        /\ i = 1
        /\ log[i].h = beforeTransition
        /\ ~log[i].ok => /\ Len(log) = 1
                         /\ CallDone
                         /\ CallErr = log[i].err
                         /\ CallErr = HookErr("beforeAll", beforeTransition)
                         /\ CurrentState = CallEntry

C12_Witness ==
    /\ TransitReturned
    /\ \E i \in Positions("beforeAll") : ~log[i].ok
    /\ \A stage \in Stages :
         Lookup(registered, <<ret.entry, ret.nextState, stage>>) # <<>>
    /\ afterTransition # Nil
    /\ ret.err.kind = "hook"

\* The destination asked of the call the log belongs to.
CallNext == IF stack # <<>> THEN Top.nextState ELSE ret.nextState

InCall == stack # <<>> \/ TransitReturned

\* The stage constant carried by the event of each kind of invocation.
StageOf(ev) ==
    CASE ev \in {"beforeAll", "before"} -> StageBefore
      [] ev \in {"inProgress", "finalize"} -> StageInProgress
      [] OTHER -> StageAfter

\* C13: a Transit from s to d assigns the current state once, after the last
\* InProgress handler and before the first After handler, and only when it
\* succeeds: the before-all hook, the Before and the InProgress handlers see
\* current state s, the After handlers and the after-all hook see d, and every
\* event carries Src = s and Dest = d with the constant of its stage.
C13_SingleCommit ==
    InCall =>
        /\ \A i \in 1..Len(log) :
             /\ log[i].Src = CallEntry
             /\ log[i].Dest = CallNext
             /\ log[i].Stage = StageOf(log[i].ev)
             /\ log[i].ev \in EarlyStages \cup {"finalize"}
                  => log[i].cur = CallEntry /\ \A j \in Positions("commit") : i < j
             /\ log[i].ev \in {"after", "afterAll"}
                  => log[i].cur = CallNext /\ \E j \in Positions("commit") : j < i
        /\ Cardinality(Positions("commit")) <= 1
        /\ CurrentState = IF Positions("commit") = {} THEN CallEntry ELSE CallNext
        /\ (CallDone /\ CallErr = NilErr) => Positions("commit") # {}
        /\ (CallDone /\ CallErr # NilErr) => Positions("commit") = {}

C13_Witness ==
    /\ TransitReturned /\ ret.err = NilErr
    /\ CurrentState = ret.nextState /\ ret.entry # ret.nextState
    /\ \A ev \in {"beforeAll", "before", "inProgress", "after", "afterAll"} :
         Positions(ev) # {}
    /\ \E i \in Positions("after") : ~log[i].ok

\* The loop receives the signal of Stop caller s in this step.
Delivered(s) == stopPc[s] = "send" /\ stopPc'[s] = "done"

\* C14 as stated: a Stop called while no retry loop is waiting is not kept
\* for later: the TransitWithRetries call that starts afterwards never
\* receives the signal of a Stop caller that was already there when it began.
C14_EarlyStopNotDelivered ==
    [][\A s \in StopProcs : Delivered(s) => s \notin hist.early]_vars

\* C15 as stated: when several callers invoke Stop while one loop waits, the
\* loop is cancelled once and no caller is left stuck: once the loop has
\* returned cancelled, every Stop called during its wait has returned too.
C15_ConcurrentStopsReturn ==
    (RetriesReturned /\ ret.how = "cancelled")
        => \A s \in hist.during : stopPc[s] = "done"

\* A TransitWithRetries call is running: waiting, or inside a Transit attempt.
InRetries == mpc \in {"select", "attempt"}

\* C16: the attempt counter is 1 plus the number of failed attempts; every
\* cycle's wait is RetryWaitTime of the counter's value then, so the waits so
\* far are those of 1, 2, ..., i; the k-th Transit attempt runs with the
\* counter at k, after the wait of RetryWaitTime(k); there are never more
\* attempts than waits.
C16_CounterAndWaits ==
    /\ InRetries =>
         /\ twr.i = hist.fails + 1
         /\ hist.waits = [k \in 1..twr.i |-> k]
         /\ mpc = "attempt" => /\ hist.attempts = twr.i
                               /\ hist.waits[hist.attempts] = hist.attempts
         /\ mpc = "select" => hist.attempts = twr.i - 1
    /\ RetriesReturned =>
         /\ ret.i = hist.fails + 1
         /\ hist.waits = [k \in 1..ret.i |-> k]
    /\ hist.attempts <= Len(hist.waits)

C16_Witness ==
    /\ mpc = "attempt"
    /\ hist.attempts = 3
    /\ hist.fails = 2
    /\ hist.waits = <<1, 2, 3>>
    /\ twr.i = 3

Exhausted == RetriesReturned /\ ret.how = "exhausted"

\* The failure the last Transit attempt of the call ended with, read from
\* that attempt's own log: its failing handler's, or the illegal-transition
\* error when the gate refused and nothing was invoked.
LastAttemptFailure ==
    IF log = <<>>
    THEN IllegalErr(ret.entry, ret.nextState)
    ELSE log[Len(log)].err

\* C17 as stated: the max-retries failure always wraps an actual failure of
\* a Transit attempt that was performed.
C17_Original ==
    Exhausted => hist.attempts >= 1 /\ ret.err.wrapped # NilErr

\* C17 (amended): the max-retries failure names the current state as source
\* and the requested destination, and wraps the failure of the last Transit
\* attempt, a handler's or the illegal-transition error, whenever MaxRetries
\* is at least 1; with MaxRetries = 0 no attempt is performed and it wraps no
\* failure.
C17_WrapsLastFailure ==
    Exhausted =>
        /\ ret.err.kind = "maxRetries"
        /\ ret.err.src = ret.entry /\ ret.err.src = CurrentState
        /\ ret.err.dst = ret.nextState
        /\ ret.err.wrapped = hist.lastFail
        /\ MaxRetries >= 1 => /\ hist.attempts >= 1
                              /\ ret.err.wrapped.kind \in {"handler", "illegal"}
                              /\ ret.err.wrapped = LastAttemptFailure
        /\ MaxRetries = 0 => hist.attempts = 0 /\ ret.err.wrapped = NilErr

C17_Witness ==
    /\ Exhausted
    /\ hist.attempts = 2
    /\ ret.err.wrapped = IllegalErr("start", "start")
    /\ registered # <<>>

\* How a finished TransitWithRetries call ended, told from what it returned
\* and what it did.
EndedIn(how) ==
    CASE how = "success" -> /\ ret.err = NilErr
                            /\ hist.attempts = hist.fails + 1
                            /\ CurrentState = ret.nextState
      [] how = "exhausted" -> /\ ret.err.kind = "maxRetries"
                              /\ hist.attempts = hist.fails
                              /\ hist.fails = MaxRetries
      [] how = "cancelled" -> /\ ret.err = hist.lastFail
                              /\ hist.attempts = hist.fails
                              /\ \E s \in StopProcs : stopPc[s] = "done"
      [] OTHER -> FALSE

\* C18: every TransitWithRetries call ends, in success, exhaustion or
\* cancellation and in one of them only, and never makes more than MaxRetries
\* Transit attempts.
C18_Terminates ==
    /\ [](hist.attempts <= MaxRetries)
    /\ [](RetriesReturned =>
            /\ ret.how \in {"success", "exhausted", "cancelled"}
            /\ EndedIn(ret.how)
            /\ ret.how = "exhausted" => ret.err # NilErr /\ ret.err # hist.lastFail)
    /\ (InRetries ~> RetriesReturned)

C18_Witness ==
    /\ Exhausted /\ NoStop
    /\ MaxRetries = 3
    /\ hist.attempts = 3

\* The After stage of the topmost Transit has just looked its handlers up.
AfterLookedUp ==
    /\ stack # <<>>
    /\ Top.pc = "after"
    /\ Len(stack') = Len(stack)
    /\ stack'[Len(stack')].pc = "afterLoop"

\* C19 as stated: also with handlers that call Transit, every change of the
\* current state from s to d happens while (s, d) is a registered transition,
\* and the After handlers run for it are those registered for the pair the
\* legality gate accepted: the state Transit was entered in and its
\* destination.
C19_CommitsAlongRegistered ==
    [][/\ CurrentState' # CurrentState => ~Unregistered(CurrentState, CurrentState')
       /\ AfterLookedUp
            => stack'[Len(stack')].handlers
                 = Lookup(registered, <<Top.entry, Top.nextState, StageAfter>>)]_vars

\* C20 as stated: when TransitWithRetries(d) returns nil, that call has
\* committed a transition to d and the current state is d.
C20_Original ==
    (RetriesReturned /\ ret.err = NilErr)
        => /\ CurrentState = ret.nextState
           /\ Positions("commit") # {}
           /\ hist.attempts >= 1

\* C20 (amended): when TransitWithRetries(d) returns nil, either its last
\* Transit attempt succeeded, and then that attempt committed the transition
\* from the state before it to d and the current state is d, or Stop cancelled
\* the call before any attempt had failed, and then no attempt was made and
\* the current state is the one the call began in.
C20_NilMeansCommitOrEarlyStop ==
    (RetriesReturned /\ ret.err = NilErr)
        => \/ /\ ret.how = "success"
              /\ CurrentState = ret.nextState
              /\ \E i \in Positions("commit") :
                   log[i].Src = ret.entry /\ log[i].Dest = ret.nextState
              /\ hist.attempts = hist.fails + 1
           \/ /\ ret.how = "cancelled"
              /\ hist.attempts = 0
              /\ hist.fails = 0
              /\ CurrentState = ret.entry
              /\ \E s \in StopProcs : stopPc[s] = "done"

C20_Witness ==
    /\ RetriesReturned /\ ret.err = NilErr
    /\ ret.how = "cancelled"
    /\ ret.nextState = "end" /\ CurrentState = "start"
    /\ ~Unregistered("start", "end")

\* C21 as stated, in the case it names: a Stop called while the loop of a
\* TransitWithRetries call is inside a Transit attempt returns to its caller
\* also when an attempt then succeeds; at the latest when the call has
\* returned nil after a successful attempt, no such Stop caller is still
\* sending.
C21_StopDuringAttemptReturns ==
    (RetriesReturned /\ ret.how = "success")
        => \A s \in hist.busy : stopPc[s] = "done"

====
